---- MODULE Spec2Model ----
(***************************************************************************)
(* VSocky: the Connection class (an exclusive owner of one OS socket       *)
(* descriptor with non-blocking read/write) and the base64 codec.          *)
(*                                                                         *)
(* Connection objects live in NumConns storage slots.  The kernel side is  *)
(* a table of descriptors created in connected pairs (socketpair/accept);  *)
(* a descriptor number stands for one incarnation of a descriptor, and the *)
(* accept layer hands each descriptor to at most one Connection            *)
(* constructor.  Every action is one whole member function, including the  *)
(* member functions and system calls it makes.                             *)
(***************************************************************************)
EXTENDS Integers, Sequences, FiniteSets, TLC

VARIABLES
    live,     \* live[c]: object c is constructed and not yet destroyed
    fd_,      \* fd_[c]: the Connection's only data member
    os,       \* the kernel's view of every descriptor
    given,    \* given[h]: descriptor h was handed to a Connection constructor
    last,     \* the last member function call: arguments, system calls, results
    b64,      \* the codec's caller: input, encoded text, decoded result
    io,       \* the caller of a writer/reader pair: payload and byte counts
    sig,      \* the process and its signals: shutdown flag, handlers, pending signals
    err       \* the caller of error_to_string: two numeric values and their texts

vars == <<live, fd_, os, given, last, b64, io, sig, err>>

---------------------------------------------------------------------------
(* Bounds *)

NumConns == 2        \* Connection objects alive at the same time
NumPairs == 2        \* connected descriptor pairs supplied by the accept layer
SockBuf == 1         \* bytes a socket's receive queue holds
MaxIo == 2           \* largest buffer handed to read() or write()
MaxCloseCalls == 2   \* counted ::close calls per descriptor (saturating)
MaxLen == 4          \* longest byte sequence handed to the codec
MaxPayload == 3      \* longest payload a writer sends through a pair
MaxText == 8         \* longest text handed to the decoder
MaxSignals == 3      \* signals sent to the process
ExtraValues == 2     \* numeric values tried on each side of the enumeration

Conns == 1..NumConns
Handles == 0..(2 * NumPairs - 1)
DataBytes == {0}

Min(a, b) == IF a < b THEN a ELSE b

SeqsUpTo(S, n) == UNION {[1..k -> S] : k \in 0..n}

---------------------------------------------------------------------------
(* The error taxonomy used by Connection and the codec *)

success == "success"
connection_closed == "connection closed"
read_failed == "read failed"
write_failed == "write failed"
internal_error == "internal error"
invalid_base64_encoding == "invalid base64 encoding"
interrupted == "interrupted"

---------------------------------------------------------------------------
(* The kernel: descriptors, their flags and their receive queues *)

\* The value fd_ holds when no descriptor is owned.
NoFd == -1
\* Values a caller can pass that are no descriptor: the sentinel and another
\* negative number.
NonDescriptors == {NoFd, -2}

\* socketpair()/accept give connected descriptors; h and Peer(h) are the two ends.
Peer(h) == IF h % 2 = 0 THEN h + 1 ELSE h - 1

IsOpen(o, fd) == fd \in Handles /\ o.open[fd]

\* errno values the kernel may report on any read()/write() of an open
\* descriptor, whatever the state of the stream.
FaultErrnos == {"EINTR", "EIO"}

\* ::close(fd).  The descriptor leaves the table and what it had not yet read
\* is dropped; the peer sees the end of the stream from then on.
sys_close(o, fd) ==
    IF fd \in Handles
    THEN [o EXCEPT !.closeCalls[fd] = Min(@ + 1, MaxCloseCalls),
                   !.open[fd] = FALSE,
                   !.rxq[fd] = <<>>]
    ELSE o

\* ::read(fd, buf, cap) with cap > 0: the results the kernel can give.
sys_read(o, fd, cap) ==
    IF ~IsOpen(o, fd)
    THEN {[ret |-> -1, errno |-> "EBADF", os |-> o, data |-> <<>>]}
    ELSE {[ret |-> -1, errno |-> e, os |-> o, data |-> <<>>] : e \in FaultErrnos}
         \cup
         (IF o.rxq[fd] # <<>>
          THEN LET k == Min(cap, Len(o.rxq[fd]))
               IN {[ret |-> k, errno |-> "none",
                    os |-> [o EXCEPT !.rxq[fd] = SubSeq(@, k + 1, Len(@))],
                    data |-> SubSeq(o.rxq[fd], 1, k)]}
          ELSE IF ~o.open[Peer(fd)]
          THEN {[ret |-> 0, errno |-> "none", os |-> o, data |-> <<>>],
                [ret |-> -1, errno |-> "ECONNRESET", os |-> o, data |-> <<>>]}
          ELSE IF o.nonblock[fd]
          THEN {[ret |-> -1, errno |-> "EAGAIN", os |-> o, data |-> <<>>]}
          ELSE {})   \* a blocking descriptor: the call does not return

\* ::write(fd, buf, n) with n > 0: the results the kernel can give.  A
\* transport that learns of the peer's close only from the answer to what it
\* sends next (lingers) takes one more write into its buffers after the close,
\* as far as they have room, and the bytes go nowhere; a local socket pair
\* refuses at once.  After the first answer that follows the close every
\* write is refused.
sys_write(o, fd, data) ==
    IF ~IsOpen(o, fd)
    THEN {[ret |-> -1, errno |-> "EBADF", os |-> o]}
    ELSE {[ret |-> -1, errno |-> e, os |-> o] : e \in FaultErrnos}
         \cup
         (IF ~o.open[Peer(fd)]
          THEN {[ret |-> -1, errno |-> e, os |-> [o EXCEPT !.lingers[fd] = FALSE]]
                  : e \in {"EPIPE", "ECONNRESET"}}
               \cup
               (IF o.lingers[fd]
                THEN {[ret |-> Min(Len(data), SockBuf), errno |-> "none",
                       os |-> [o EXCEPT !.lingers[fd] = FALSE]]}
                ELSE {})
          ELSE IF Len(o.rxq[Peer(fd)]) >= SockBuf
          THEN IF o.nonblock[fd]
               THEN {[ret |-> -1, errno |-> "EAGAIN", os |-> o]}
               ELSE {}
          ELSE LET k == Min(Len(data), SockBuf - Len(o.rxq[Peer(fd)]))
               IN {[ret |-> k, errno |-> "none",
                    os |-> [o EXCEPT !.rxq[Peer(fd)] = @ \o SubSeq(data, 1, k)]]})

\* ::fcntl(fd, F_GETFL, 0)
sys_fcntl_getfl(o, fd) ==
    IF IsOpen(o, fd) THEN [ret |-> 0, nonblock |-> o.nonblock[fd]]
    ELSE [ret |-> -1, nonblock |-> FALSE]

\* ::fcntl(fd, F_SETFL, flags | O_NONBLOCK)
sys_fcntl_setfl(o, fd) ==
    IF IsOpen(o, fd) THEN [ret |-> 0, os |-> [o EXCEPT !.nonblock[fd] = TRUE]]
    ELSE [ret |-> -1, os |-> o]

\* The address getpeername() fills in for a connected descriptor.
svm_cid(h) == 3 + (Peer(h) \div 2)
svm_port(h) == 52000 + Peer(h)

\* ::getpeername(fd, ...): 0 and the address, or -1.
sys_getpeername(o, fd) ==
    IF ~IsOpen(o, fd)
    THEN {[ret |-> -1, cid |-> 0, port |-> 0]}
    ELSE {[ret |-> 0, cid |-> svm_cid(fd), port |-> svm_port(fd)],
          [ret |-> -1, cid |-> 0, port |-> 0]}

---------------------------------------------------------------------------
(* Connection: member functions as functions of the machine                *)
(* m = [fd |-> the fd_ of every object, os |-> kernel, calls |-> system    *)
(* calls issued so far by the running member function]                     *)

Machine == [fd |-> fd_, os |-> os, calls |-> <<>>]

Issue(m, call, fd) == Append(m.calls, <<call, fd>>)

\* is_valid() that takes every negative fd_ for an absent handle.
is_valid_nonnegative(c) == fd_[c] >= 0

\* bool is_valid() const: fd_ != -1.
is_valid(c) == fd_[c] # -1

fd(c) == fd_[c]

\* close() that issues ::close and forgets to reset fd_.
Connection_close_keeps_fd(m, c) ==
    IF m.fd[c] # -1
    THEN [m EXCEPT !.os = sys_close(m.os, m.fd[c]),
                   !.calls = Issue(m, "close", m.fd[c])]
    ELSE m

\* close() that keeps the descriptor when ::close fails.
Connection_close_keeps_fd_on_failure(m, c) ==
    IF m.fd[c] # -1
    THEN [fd |-> IF IsOpen(m.os, m.fd[c]) THEN [m.fd EXCEPT ![c] = -1] ELSE m.fd,
          os |-> sys_close(m.os, m.fd[c]),
          calls |-> Issue(m, "close", m.fd[c])]
    ELSE m

\* void Connection::close()
Connection_close(m, c) ==
    IF m.fd[c] # -1
    THEN [fd |-> [m.fd EXCEPT ![c] = -1],
          os |-> sys_close(m.os, m.fd[c]),
          calls |-> Issue(m, "close", m.fd[c])]
    ELSE m

\* set_non_blocking() that does not look at what fcntl returned.
set_non_blocking_ignores_failure(m, c) ==
    IF m.fd[c] = -1
    THEN [m |-> m, ec |-> connection_closed]
    ELSE LET g == sys_fcntl_getfl(m.os, m.fd[c])
             m1 == [m EXCEPT !.calls = Issue(m, "fcntl_getfl", m.fd[c])]
         IN IF ~g.nonblock
            THEN LET s == sys_fcntl_setfl(m1.os, m.fd[c])
                 IN [m |-> [m1 EXCEPT !.os = s.os,
                                      !.calls = Issue(m1, "fcntl_setfl", m.fd[c])],
                     ec |-> success]
            ELSE [m |-> m1, ec |-> success]

\* std::error_code Connection::set_non_blocking()
set_non_blocking(m, c) ==
    IF m.fd[c] = -1
    THEN [m |-> m, ec |-> connection_closed]
    ELSE LET g == sys_fcntl_getfl(m.os, m.fd[c])
             m1 == [m EXCEPT !.calls = Issue(m, "fcntl_getfl", m.fd[c])]
         IN IF g.ret = -1
            THEN [m |-> m1, ec |-> internal_error]
            ELSE IF ~g.nonblock
            THEN LET s == sys_fcntl_setfl(m1.os, m.fd[c])
                     m2 == [m1 EXCEPT !.os = s.os,
                                      !.calls = Issue(m1, "fcntl_setfl", m.fd[c])]
                 IN IF s.ret = -1
                    THEN [m |-> m2, ec |-> internal_error]
                    ELSE [m |-> m2, ec |-> success]
            ELSE [m |-> m1, ec |-> success]

\* A constructor that leaves the descriptor in the mode it came in.
Connection_ctor_blocking(m, c, newfd) ==
    [m EXCEPT !.fd[c] = newfd]

\* Connection::Connection(int fd)
Connection_ctor(m, c, newfd) ==
    LET m0 == [m EXCEPT !.fd[c] = newfd]
    IN IF newfd >= 0 THEN set_non_blocking(m0, c).m ELSE m0

\* A destructor that releases nothing.
Connection_dtor_leaks(m, c) == m

\* Connection::~Connection()
Connection_dtor(m, c) == Connection_close(m, c)

\* A move constructor that copies fd_ and leaves the source as it was.
Connection_move_ctor_copies(m, c, other) ==
    [m EXCEPT !.fd = [m.fd EXCEPT ![c] = m.fd[other]]]

\* A move constructor that takes fd_ and closes the source instead of
\* detaching it.
Connection_move_ctor_closes(m, c, other) ==
    LET m1 == [m EXCEPT !.fd = [m.fd EXCEPT ![c] = m.fd[other]]]
    IN Connection_close(m1, other)

\* Connection::Connection(Connection&& other): fd_(std::exchange(other.fd_, -1))
Connection_move_ctor(m, c, other) ==
    [m EXCEPT !.fd = [m.fd EXCEPT ![c] = m.fd[other], ![other] = -1]]

\* A move assignment that overwrites fd_ without closing what it held.
Connection_move_assign_leaks(m, c, other) ==
    IF c # other
    THEN [m EXCEPT !.fd = [m.fd EXCEPT ![c] = m.fd[other], ![other] = -1]]
    ELSE m

\* A move assignment without the self-assignment guard.
Connection_move_assign_unguarded(m, c, other) ==
    LET m1 == Connection_close(m, c)
    IN [m1 EXCEPT !.fd = [m1.fd EXCEPT ![c] = m1.fd[other], ![other] = -1]]

\* Connection& Connection::operator=(Connection&& other)
Connection_move_assign(m, c, other) ==
    IF c # other
    THEN LET m1 == Connection_close(m, c)
         IN [m1 EXCEPT !.fd = [m1.fd EXCEPT ![c] = m1.fd[other], ![other] = -1]]
    ELSE m

\* read() that takes a return of 0 for success, as write() does.
read_outcome_zero_is_success(ret, errno) ==
    IF ret >= 0 THEN [ec |-> success, n |-> ret]
    ELSE CASE errno = "EAGAIN" -> [ec |-> success, n |-> 0]
           [] errno = "EINTR" -> [ec |-> interrupted, n |-> 0]
           [] errno = "ECONNRESET" -> [ec |-> connection_closed, n |-> 0]
           [] OTHER -> [ec |-> read_failed, n |-> 0]

\* read() without the ECONNRESET case: it falls to the default.
read_outcome_reset_is_failure(ret, errno) ==
    IF ret > 0 THEN [ec |-> success, n |-> ret]
    ELSE IF ret = 0 THEN [ec |-> connection_closed, n |-> 0]
    ELSE CASE errno = "EAGAIN" -> [ec |-> success, n |-> 0]
           [] errno = "EINTR" -> [ec |-> interrupted, n |-> 0]
           [] OTHER -> [ec |-> read_failed, n |-> 0]

\* read() that reports one byte less than it was given.
read_outcome_short_count(ret, errno) ==
    IF ret > 0 THEN [ec |-> success, n |-> ret - 1]
    ELSE IF ret = 0 THEN [ec |-> connection_closed, n |-> 0]
    ELSE CASE errno = "EAGAIN" -> [ec |-> success, n |-> 0]
           [] errno = "EINTR" -> [ec |-> interrupted, n |-> 0]
           [] errno = "ECONNRESET" -> [ec |-> connection_closed, n |-> 0]
           [] OTHER -> [ec |-> read_failed, n |-> 0]

\* read() that takes the end of the stream for a failure.
read_outcome_eof_is_failure(ret, errno) ==
    IF ret > 0 THEN [ec |-> success, n |-> ret]
    ELSE IF ret = 0 THEN [ec |-> read_failed, n |-> 0]
    ELSE CASE errno = "EAGAIN" -> [ec |-> success, n |-> 0]
           [] errno = "EINTR" -> [ec |-> interrupted, n |-> 0]
           [] errno = "ECONNRESET" -> [ec |-> connection_closed, n |-> 0]
           [] OTHER -> [ec |-> read_failed, n |-> 0]

\* The outcome read() reports for what ::read returned.
read_outcome(ret, errno) ==
    IF ret > 0 THEN [ec |-> success, n |-> ret]
    ELSE IF ret = 0 THEN [ec |-> connection_closed, n |-> 0]
    ELSE CASE errno = "EAGAIN" -> [ec |-> success, n |-> 0]
           [] errno = "EINTR" -> [ec |-> interrupted, n |-> 0]
           [] errno = "ECONNRESET" -> [ec |-> connection_closed, n |-> 0]
           [] errno \in {"EBADF", "ENOTCONN", "ENOTSOCK"} -> [ec |-> read_failed, n |-> 0]
           [] OTHER -> [ec |-> read_failed, n |-> 0]

\* read() without the test for an absent handle.
Connection_read_unchecked(m, c, cap, bytes_read) ==
    IF cap = 0
    THEN {[m |-> m, ec |-> success, n |-> 0,
           ret |-> 0, errno |-> "none", data |-> <<>>]}
    ELSE {[m |-> [m EXCEPT !.os = r.os, !.calls = Issue(m, "read", m.fd[c])],
           ec |-> read_outcome(r.ret, r.errno).ec,
           n |-> read_outcome(r.ret, r.errno).n,
           ret |-> r.ret, errno |-> r.errno, data |-> r.data]
          : r \in sys_read(m.os, m.fd[c], cap)}

\* read() that gives the descriptor up when the stream has ended: it closes
\* fd_ and becomes handle-less on end of stream and on ECONNRESET.
Connection_read_closes_on_eof(m, c, cap, bytes_read) ==
    IF m.fd[c] = -1
    THEN {[m |-> m, ec |-> connection_closed, n |-> 0,
           ret |-> 0, errno |-> "none", data |-> <<>>]}
    ELSE IF cap = 0
    THEN {[m |-> m, ec |-> success, n |-> 0,
           ret |-> 0, errno |-> "none", data |-> <<>>]}
    ELSE {[m |-> IF read_outcome(r.ret, r.errno).ec = connection_closed
                 THEN Connection_close([m EXCEPT !.os = r.os,
                                                 !.calls = Issue(m, "read", m.fd[c])], c)
                 ELSE [m EXCEPT !.os = r.os, !.calls = Issue(m, "read", m.fd[c])],
           ec |-> read_outcome(r.ret, r.errno).ec,
           n |-> read_outcome(r.ret, r.errno).n,
           ret |-> r.ret, errno |-> r.errno, data |-> r.data]
          : r \in sys_read(m.os, m.fd[c], cap)}

\* std::error_code Connection::read(std::span<uint8_t> buffer, size_t& bytes_read)
\* The set of returns: [m, ec, n, ret, errno, data].  bytes_read is the value
\* the caller's variable holds at the call and n the value it holds at the
\* return: the first statement stores 0, a positive result stores the count.
Connection_read(m, c, cap, bytes_read) ==
    IF m.fd[c] = -1
    THEN {[m |-> m, ec |-> connection_closed, n |-> 0,
           ret |-> 0, errno |-> "none", data |-> <<>>]}
    ELSE IF cap = 0
    THEN {[m |-> m, ec |-> success, n |-> 0,
           ret |-> 0, errno |-> "none", data |-> <<>>]}
    ELSE {[m |-> [m EXCEPT !.os = r.os, !.calls = Issue(m, "read", m.fd[c])],
           ec |-> read_outcome(r.ret, r.errno).ec,
           n |-> read_outcome(r.ret, r.errno).n,
           ret |-> r.ret, errno |-> r.errno, data |-> r.data]
          : r \in sys_read(m.os, m.fd[c], cap)}

\* write() that takes a full output buffer for a failure.
write_outcome_eagain_is_failure(ret, errno) ==
    IF ret >= 0 THEN [ec |-> success, n |-> ret]
    ELSE CASE errno = "EINTR" -> [ec |-> interrupted, n |-> 0]
           [] errno \in {"EPIPE", "ECONNRESET"} -> [ec |-> connection_closed, n |-> 0]
           [] OTHER -> [ec |-> write_failed, n |-> 0]

\* write() that takes an interrupted call for a failure.
write_outcome_eintr_is_failure(ret, errno) ==
    IF ret >= 0 THEN [ec |-> success, n |-> ret]
    ELSE CASE errno = "EAGAIN" -> [ec |-> success, n |-> 0]
           [] errno \in {"EPIPE", "ECONNRESET"} -> [ec |-> connection_closed, n |-> 0]
           [] OTHER -> [ec |-> write_failed, n |-> 0]

\* write() that reports an unexpected errno as an internal error.
write_outcome_default_is_internal(ret, errno) ==
    IF ret >= 0 THEN [ec |-> success, n |-> ret]
    ELSE CASE errno = "EAGAIN" -> [ec |-> success, n |-> 0]
           [] errno = "EINTR" -> [ec |-> interrupted, n |-> 0]
           [] errno \in {"EPIPE", "ECONNRESET"} -> [ec |-> connection_closed, n |-> 0]
           [] errno \in {"EBADF", "ENOTCONN", "ENOTSOCK"} -> [ec |-> write_failed, n |-> 0]
           [] OTHER -> [ec |-> internal_error, n |-> 0]

\* write() that takes a broken pipe for a failure.
write_outcome_epipe_is_failure(ret, errno) ==
    IF ret >= 0 THEN [ec |-> success, n |-> ret]
    ELSE CASE errno = "EAGAIN" -> [ec |-> success, n |-> 0]
           [] errno = "EINTR" -> [ec |-> interrupted, n |-> 0]
           [] errno = "ECONNRESET" -> [ec |-> connection_closed, n |-> 0]
           [] OTHER -> [ec |-> write_failed, n |-> 0]

\* write() that takes a broken pipe for a full output buffer.
write_outcome_epipe_is_would_block(ret, errno) ==
    IF ret >= 0 THEN [ec |-> success, n |-> ret]
    ELSE CASE errno \in {"EAGAIN", "EPIPE"} -> [ec |-> success, n |-> 0]
           [] errno = "EINTR" -> [ec |-> interrupted, n |-> 0]
           [] errno = "ECONNRESET" -> [ec |-> connection_closed, n |-> 0]
           [] OTHER -> [ec |-> write_failed, n |-> 0]

\* write() that takes a full output buffer for a closed connection.
write_outcome_eagain_is_closed(ret, errno) ==
    IF ret >= 0 THEN [ec |-> success, n |-> ret]
    ELSE CASE errno = "EINTR" -> [ec |-> interrupted, n |-> 0]
           [] errno \in {"EAGAIN", "EPIPE", "ECONNRESET"} -> [ec |-> connection_closed, n |-> 0]
           [] OTHER -> [ec |-> write_failed, n |-> 0]

\* The outcome write() reports for what ::write returned.
write_outcome(ret, errno) ==
    IF ret >= 0 THEN [ec |-> success, n |-> ret]
    ELSE CASE errno = "EAGAIN" -> [ec |-> success, n |-> 0]
           [] errno = "EINTR" -> [ec |-> interrupted, n |-> 0]
           [] errno \in {"EPIPE", "ECONNRESET"} -> [ec |-> connection_closed, n |-> 0]
           [] errno \in {"EBADF", "ENOTCONN", "ENOTSOCK"} -> [ec |-> write_failed, n |-> 0]
           [] OTHER -> [ec |-> write_failed, n |-> 0]

\* write() without the check for empty input.
Connection_write_no_empty_check(m, c, data, bytes_written) ==
    IF m.fd[c] = -1
    THEN {[m |-> m, ec |-> connection_closed, n |-> 0, ret |-> 0, errno |-> "none"]}
    ELSE {[m |-> [m EXCEPT !.os = r.os, !.calls = Issue(m, "write", m.fd[c])],
           ec |-> write_outcome(r.ret, r.errno).ec,
           n |-> write_outcome(r.ret, r.errno).n,
           ret |-> r.ret, errno |-> r.errno]
          : r \in sys_write(m.os, m.fd[c], data)}

\* write() without its first statement: the output variable keeps the value
\* it held unless the system call succeeds.
Connection_write_no_initial_zero(m, c, data, bytes_written) ==
    IF m.fd[c] = -1
    THEN {[m |-> m, ec |-> connection_closed, n |-> bytes_written,
           ret |-> 0, errno |-> "none"]}
    ELSE IF data = <<>>
    THEN {[m |-> m, ec |-> success, n |-> bytes_written, ret |-> 0, errno |-> "none"]}
    ELSE {[m |-> [m EXCEPT !.os = r.os, !.calls = Issue(m, "write", m.fd[c])],
           ec |-> write_outcome(r.ret, r.errno).ec,
           n |-> IF r.ret >= 0 THEN r.ret ELSE bytes_written,
           ret |-> r.ret, errno |-> r.errno]
          : r \in sys_write(m.os, m.fd[c], data)}

\* write() with its two early returns in the other order: empty input is
\* looked at before fd_.
Connection_write_empty_check_first(m, c, data, bytes_written) ==
    IF data = <<>>
    THEN {[m |-> m, ec |-> success, n |-> 0, ret |-> 0, errno |-> "none"]}
    ELSE IF m.fd[c] = -1
    THEN {[m |-> m, ec |-> connection_closed, n |-> 0, ret |-> 0, errno |-> "none"]}
    ELSE {[m |-> [m EXCEPT !.os = r.os, !.calls = Issue(m, "write", m.fd[c])],
           ec |-> write_outcome(r.ret, r.errno).ec,
           n |-> write_outcome(r.ret, r.errno).n,
           ret |-> r.ret, errno |-> r.errno]
          : r \in sys_write(m.os, m.fd[c], data)}

\* std::error_code Connection::write(std::span<const uint8_t> data, size_t& bytes_written)
\* bytes_written is the value the caller's variable holds at the call and n
\* the value it holds at the return: the first statement stores 0, a result
\* that is not negative stores the count.
Connection_write(m, c, data, bytes_written) ==
    IF m.fd[c] = -1
    THEN {[m |-> m, ec |-> connection_closed, n |-> 0, ret |-> 0, errno |-> "none"]}
    ELSE IF data = <<>>
    THEN {[m |-> m, ec |-> success, n |-> 0, ret |-> 0, errno |-> "none"]}
    ELSE {[m |-> [m EXCEPT !.os = r.os, !.calls = Issue(m, "write", m.fd[c])],
           ec |-> write_outcome(r.ret, r.errno).ec,
           n |-> write_outcome(r.ret, r.errno).n,
           ret |-> r.ret, errno |-> r.errno]
          : r \in sys_write(m.os, m.fd[c], data)}

\* peer_cid() that returns svm_port, the other field of the address.
peer_cid_returns_port(m, c) ==
    IF m.fd[c] = -1
    THEN {[m |-> m, opt |-> <<>>, ret |-> 0]}
    ELSE {[m |-> [m EXCEPT !.calls = Issue(m, "getpeername", m.fd[c])],
           opt |-> IF r.ret = 0 THEN <<r.port>> ELSE <<>>, ret |-> r.ret]
          : r \in sys_getpeername(m.os, m.fd[c])}

\* std::optional<uint32_t> Connection::peer_cid(): <<>> is nullopt, <<v>> a
\* value; ret is what ::getpeername returned (0 when it was not called).
peer_cid(m, c) ==
    IF m.fd[c] = -1
    THEN {[m |-> m, opt |-> <<>>, ret |-> 0]}
    ELSE {[m |-> [m EXCEPT !.calls = Issue(m, "getpeername", m.fd[c])],
           opt |-> IF r.ret = 0 THEN <<r.cid>> ELSE <<>>, ret |-> r.ret]
          : r \in sys_getpeername(m.os, m.fd[c])}

\* std::optional<uint32_t> Connection::peer_port()
peer_port(m, c) ==
    IF m.fd[c] = -1
    THEN {[m |-> m, opt |-> <<>>, ret |-> 0]}
    ELSE {[m |-> [m EXCEPT !.calls = Issue(m, "getpeername", m.fd[c])],
           opt |-> IF r.ret = 0 THEN <<r.port>> ELSE <<>>, ret |-> r.ret]
          : r \in sys_getpeername(m.os, m.fd[c])}

---------------------------------------------------------------------------
(* The record of the last member function call *)

NoCall ==
    [op |-> "none", c |-> 0, src |-> 0, fd |-> NoFd, sfd |-> NoFd, req |-> 0,
     ret |-> 0, errno |-> "none", ec |-> success, n |-> 0, calls |-> <<>>,
     opt |-> <<>>, data |-> <<>>]

Call(op, c, m) ==
    [NoCall EXCEPT !.op = op, !.c = c, !.fd = fd_[c], !.calls = m.calls]

---------------------------------------------------------------------------
(* The initial state: no Connection object exists; the accept layer holds   *)
(* NumPairs connected pairs, all open, blocking, with nothing in flight.    *)

InitOs ==
    [open |-> [h \in Handles |-> TRUE],
     nonblock |-> [h \in Handles |-> FALSE],
     rxq |-> [h \in Handles |-> <<>>],
     lingers |-> [h \in Handles |-> FALSE],
     closeCalls |-> [h \in Handles |-> 0]]

\* The process at the start of main: std::atomic<bool> shutdown_requested_{false},
\* no handler installed, no signal pending.  pc is the position of the server
\* main ("none" in a program that has another main) and status its exit
\* status, -1 while it runs.
SigStart ==
    [flag |-> FALSE, installed |-> {}, pending |-> {}, alive |-> TRUE, sent |-> 0,
     latched |-> FALSE, op |-> "none", arg |-> "none", ret |-> FALSE,
     pc |-> "none", status |-> -1]

\* The caller of error_to_string has no value in hand.
ErrIdle ==
    [pc |-> "idle", a |-> 0, b |-> 0, ta |-> "", tb |-> "", cat |-> "", msg |-> ""]

\* No writer/reader pair is being driven.
NoIo ==
    [payload |-> <<>>, sent |-> <<>>, rcvd |-> <<>>, eof |-> FALSE, late |-> 0,
     bytes_written |-> 0, bytes_read |-> 0, held |-> 0]

InitConn ==
    /\ live = [c \in Conns |-> FALSE]
    /\ fd_ = [c \in Conns |-> NoFd]
    /\ os = InitOs
    /\ given = [h \in Handles |-> FALSE]
    /\ last = NoCall
    /\ io = NoIo
    /\ sig = SigStart
    /\ err = ErrIdle

\* The codec's caller has nothing in hand.
B64Idle == [pc |-> "idle", input |-> <<>>, text |-> <<>>, ec |-> success, out |-> <<>>]

InitB64 == b64 = B64Idle

---------------------------------------------------------------------------
(* Actions: one per member function, called by the owner of the objects.    *)
(* The caller makes one call at a time: it looks at what the call returned  *)
(* (last) and then goes on to its next call.                                *)

Idle == last.op = "none"

\* The caller is done with the results of its last call.
Return ==
    /\ ~Idle
    /\ last' = NoCall
    /\ UNCHANGED <<live, fd_, os, given, b64, io, sig, err>>

\* The descriptor the accept layer supplies next: the lowest one not yet handed
\* out (NoFd when all were).
NextHandle ==
    IF \A h \in Handles : given[h] THEN NoFd
    ELSE CHOOSE h \in Handles : ~given[h] /\ \A g \in Handles : g < h => given[g]

\* Connection c(newfd): newfd is a descriptor fresh from the accept layer, or
\* no descriptor at all.
Construct(c, newfd) ==
    /\ Idle
    /\ ~live[c]
    /\ newfd \in Handles => newfd = NextHandle
    /\ LET m == Connection_ctor(Machine, c, newfd)
       IN /\ fd_' = m.fd
          /\ os' = m.os
          /\ last' = [NoCall EXCEPT !.op = "construct", !.c = c, !.fd = newfd,
                                    !.calls = m.calls]
    /\ live' = [live EXCEPT ![c] = TRUE]
    /\ given' = [h \in Handles |-> given[h] \/ h = newfd]
    /\ UNCHANGED <<b64, io, sig, err>>

\* c goes out of scope.
Destroy(c) ==
    /\ Idle
    /\ live[c]
    /\ LET m == Connection_dtor(Machine, c)
       IN /\ fd_' = m.fd
          /\ os' = m.os
          /\ last' = Call("destroy", c, m)
    /\ live' = [live EXCEPT ![c] = FALSE]
    /\ UNCHANGED <<given, b64, io, sig, err>>

\* Connection c(std::move(other))
MoveConstruct(c, other) ==
    /\ Idle
    /\ ~live[c]
    /\ live[other]
    /\ LET m == Connection_move_ctor(Machine, c, other)
       IN /\ fd_' = m.fd
          /\ os' = m.os
          /\ last' = [NoCall EXCEPT !.op = "move_construct", !.c = c, !.src = other,
                                    !.sfd = fd_[other], !.calls = m.calls]
    /\ live' = [live EXCEPT ![c] = TRUE]
    /\ UNCHANGED <<given, b64, io, sig, err>>

\* c = std::move(other), other possibly c itself
MoveAssign(c, other) ==
    /\ Idle
    /\ live[c]
    /\ live[other]
    /\ LET m == Connection_move_assign(Machine, c, other)
       IN /\ fd_' = m.fd
          /\ os' = m.os
          /\ last' = [Call("move_assign", c, m) EXCEPT !.src = other,
                                                       !.sfd = fd_[other]]
    /\ UNCHANGED <<live, given, b64, io, sig, err>>

\* c.close()
Close(c) ==
    /\ Idle
    /\ live[c]
    /\ LET m == Connection_close(Machine, c)
       IN /\ fd_' = m.fd
          /\ os' = m.os
          /\ last' = Call("close", c, m)
    /\ UNCHANGED <<live, given, b64, io, sig, err>>

\* c.read(buffer, bytes_read) with a buffer of cap bytes
Read(c, cap) ==
    /\ Idle
    /\ live[c]
    /\ \E held \in 0..MaxIo : \E r \in Connection_read(Machine, c, cap, held) :
          /\ fd_' = r.m.fd
          /\ os' = r.m.os
          /\ last' = [Call("read", c, r.m) EXCEPT !.req = cap, !.ret = r.ret,
                          !.errno = r.errno, !.ec = r.ec, !.n = r.n, !.data = r.data]
    /\ UNCHANGED <<live, given, b64, io, sig, err>>

\* c.write(data, bytes_written)
Write(c, data) ==
    /\ Idle
    /\ live[c]
    /\ \E held \in 0..MaxIo : \E r \in Connection_write(Machine, c, data, held) :
          /\ fd_' = r.m.fd
          /\ os' = r.m.os
          /\ last' = [Call("write", c, r.m) EXCEPT !.req = Len(data), !.ret = r.ret,
                          !.errno = r.errno, !.ec = r.ec, !.n = r.n, !.data = data]
    /\ UNCHANGED <<live, given, b64, io, sig, err>>

\* c.set_non_blocking()
SetNonBlocking(c) ==
    /\ Idle
    /\ live[c]
    /\ LET r == set_non_blocking(Machine, c)
       IN /\ fd_' = r.m.fd
          /\ os' = r.m.os
          /\ last' = [Call("set_non_blocking", c, r.m) EXCEPT !.ec = r.ec]
    /\ UNCHANGED <<live, given, b64, io, sig, err>>

\* c.peer_cid()
PeerCid(c) ==
    /\ Idle
    /\ live[c]
    /\ \E r \in peer_cid(Machine, c) :
          /\ fd_' = r.m.fd
          /\ os' = r.m.os
          /\ last' = [Call("peer_cid", c, r.m) EXCEPT !.opt = r.opt, !.ret = r.ret]
    /\ UNCHANGED <<live, given, b64, io, sig, err>>

\* c.peer_port()
PeerPort(c) ==
    /\ Idle
    /\ live[c]
    /\ \E r \in peer_port(Machine, c) :
          /\ fd_' = r.m.fd
          /\ os' = r.m.os
          /\ last' = [Call("peer_port", c, r.m) EXCEPT !.opt = r.opt, !.ret = r.ret]
    /\ UNCHANGED <<live, given, b64, io, sig, err>>

Next ==
    \/ \E c \in Conns, newfd \in Handles \cup NonDescriptors : Construct(c, newfd)
    \/ \E c \in Conns : Destroy(c)
    \/ \E c \in Conns : \E other \in Conns \ {c} : MoveConstruct(c, other)
    \/ \E c \in Conns, other \in Conns : MoveAssign(c, other)
    \/ \E c \in Conns : Close(c)
    \/ \E c \in Conns, cap \in 0..MaxIo : Read(c, cap)
    \/ \E c \in Conns, data \in SeqsUpTo(DataBytes, MaxIo) : Write(c, data)
    \/ \E c \in Conns : SetNonBlocking(c)
    \/ \E c \in Conns : PeerCid(c)
    \/ \E c \in Conns : PeerPort(c)
    \/ Return

Init == InitConn /\ InitB64

Spec == Init /\ [][Next]_vars

---------------------------------------------------------------------------
(* The base64 codec.  A byte is a number in 0..255, a text is a sequence of *)
(* characters, a character a string of length one.                          *)

\* constexpr std::array<char, 64> encode_table; encode_table[i] of the code is
\* encode_table[i + 1] here.
encode_table ==
    << "A", "B", "C", "D", "E", "F", "G", "H",
       "I", "J", "K", "L", "M", "N", "O", "P",
       "Q", "R", "S", "T", "U", "V", "W", "X",
       "Y", "Z", "a", "b", "c", "d", "e", "f",
       "g", "h", "i", "j", "k", "l", "m", "n",
       "o", "p", "q", "r", "s", "t", "u", "v",
       "w", "x", "y", "z", "0", "1", "2", "3",
       "4", "5", "6", "7", "8", "9", "+", "/" >>

\* A decode table that gives 0 for a character outside the alphabet.
decode_table_lenient(ch) ==
    IF ch = "=" THEN -2
    ELSE IF \E i \in 0..63 : encode_table[i + 1] = ch
    THEN CHOOSE i \in 0..63 : encode_table[i + 1] = ch
    ELSE 0

\* create_decode_table(): -1 for every character, then the 6-bit value of each
\* character of encode_table, then -2 for the padding character.
decode_table(ch) ==
    IF ch = "=" THEN -2
    ELSE IF \E i \in 0..63 : encode_table[i + 1] = ch
    THEN CHOOSE i \in 0..63 : encode_table[i + 1] = ch
    ELSE -1

\* x >> k and x & 0x3F, x & 0xFF on the integers the code shifts and masks
\* (the mask of a negative int8_t is that of its two's complement).
Shr(x, k) == x \div (2 ^ k)
Mask6(x) == x % 64
Mask8(x) == x % 256

\* A group encoded least significant six bits first.
encode_triple_lsb_first(b0, b1, b2) ==
    LET triple == b0 * (2 ^ 16) + b1 * (2 ^ 8) + b2
    IN << encode_table[Mask6(triple) + 1],
          encode_table[Mask6(Shr(triple, 6)) + 1],
          encode_table[Mask6(Shr(triple, 12)) + 1],
          encode_table[Mask6(Shr(triple, 18)) + 1] >>

\* The four characters of one complete 3-byte group.
encode_triple(b0, b1, b2) ==
    LET triple == b0 * (2 ^ 16) + b1 * (2 ^ 8) + b2
    IN << encode_table[Mask6(Shr(triple, 18)) + 1],
          encode_table[Mask6(Shr(triple, 12)) + 1],
          encode_table[Mask6(Shr(triple, 6)) + 1],
          encode_table[Mask6(triple) + 1] >>

\* A last group that always ends in one padding character.
encode_rest_single_pad(data, i) ==
    LET two == i + 1 < Len(data)
        triple == data[i + 1] * (2 ^ 16) + (IF two THEN data[i + 2] * (2 ^ 8) ELSE 0)
    IN << encode_table[Mask6(Shr(triple, 18)) + 1],
          encode_table[Mask6(Shr(triple, 12)) + 1],
          encode_table[Mask6(Shr(triple, 6)) + 1], "=" >>

\* The four characters of the last 1 or 2 bytes, data[i] the first of them
\* (i counts from 0 as in the code).
encode_rest(data, i) ==
    LET two == i + 1 < Len(data)
        triple == data[i + 1] * (2 ^ 16) + (IF two THEN data[i + 2] * (2 ^ 8) ELSE 0)
    IN << encode_table[Mask6(Shr(triple, 18)) + 1],
          encode_table[Mask6(Shr(triple, 12)) + 1] >>
       \o (IF two
           THEN << encode_table[Mask6(Shr(triple, 6)) + 1], "=" >>
           ELSE << "=", "=" >>)

\* The loop over complete groups from index i on, then the remaining bytes.
RECURSIVE encode_from(_, _)
encode_from(data, i) ==
    IF i + 2 < Len(data)
    THEN encode_triple(data[i + 1], data[i + 2], data[i + 3]) \o encode_from(data, i + 3)
    ELSE IF i < Len(data) THEN encode_rest(data, i) ELSE <<>>

\* std::string base64_encode(std::span<const uint8_t> data)
base64_encode(data) ==
    IF data = <<>> THEN <<>> ELSE encode_from(data, 0)

\* The count of trailing padding characters base64_decode starts with.
padding_count(encoded) ==
    IF Len(encoded) >= 2 /\ encoded[Len(encoded)] = "="
    THEN IF encoded[Len(encoded) - 1] = "=" THEN 2 ELSE 1
    ELSE 0

\* The 6-bit values of the group at index i (from 0), and whether the checks of
\* the inner loop accept its four characters.
group_values(encoded, i) == [j \in 0..3 |-> decode_table(encoded[i + j + 1])]

\* The checks of the inner loop without the one on the place of padding.
group_ok_any_padding(encoded, i, padding) ==
    \A j \in 0..3 : group_values(encoded, i)[j] # -1

\* The check of a group that also looks at the bits padding discards: the
\* symbol before "==" must have its low 4 bits at zero, the one before a
\* single "=" its low 2 bits.
group_ok_canonical_only(encoded, i, padding) ==
    /\ \A j \in 0..3 :
          /\ group_values(encoded, i)[j] # -1
          /\ ~(group_values(encoded, i)[j] = -2 /\ i + j < Len(encoded) - padding)
    /\ (group_values(encoded, i)[2] = -2 /\ group_values(encoded, i)[1] >= 0)
          => group_values(encoded, i)[1] % 16 = 0
    /\ (group_values(encoded, i)[3] = -2 /\ group_values(encoded, i)[2] >= 0)
          => group_values(encoded, i)[2] % 4 = 0

group_ok(encoded, i, padding) ==
    \A j \in 0..3 :
        /\ group_values(encoded, i)[j] # -1
        /\ ~(group_values(encoded, i)[j] = -2 /\ i + j < Len(encoded) - padding)

\* A decoder that gives three bytes for every group, padded or not.
group_bytes_keeps_padding(values) ==
    LET triple == Mask6(values[0]) * (2 ^ 18)
                  + Mask6(values[1]) * (2 ^ 12)
                  + Mask6(IF values[2] = -2 THEN 0 ELSE values[2]) * (2 ^ 6)
                  + Mask6(IF values[3] = -2 THEN 0 ELSE values[3])
    IN << Mask8(Shr(triple, 16)), Mask8(Shr(triple, 8)), Mask8(triple) >>

\* A decoder that gives the second byte of a group also when the third
\* character is padding.
group_bytes_second_always(values) ==
    LET triple == Mask6(values[0]) * (2 ^ 18)
                  + Mask6(values[1]) * (2 ^ 12)
                  + Mask6(IF values[2] = -2 THEN 0 ELSE values[2]) * (2 ^ 6)
                  + Mask6(IF values[3] = -2 THEN 0 ELSE values[3])
    IN << Mask8(Shr(triple, 16)), Mask8(Shr(triple, 8)) >>
       \o (IF values[3] # -2 THEN << Mask8(triple) >> ELSE <<>>)

\* The bytes one group gives: the second and third only when the third and
\* fourth characters are not padding.
group_bytes(values) ==
    LET triple == Mask6(values[0]) * (2 ^ 18)
                  + Mask6(values[1]) * (2 ^ 12)
                  + Mask6(IF values[2] = -2 THEN 0 ELSE values[2]) * (2 ^ 6)
                  + Mask6(IF values[3] = -2 THEN 0 ELSE values[3])
    IN << Mask8(Shr(triple, 16)) >>
       \o (IF values[2] # -2 THEN << Mask8(Shr(triple, 8)) >> ELSE <<>>)
       \o (IF values[3] # -2 THEN << Mask8(triple) >> ELSE <<>>)

\* The loop over the groups from index i on: the bytes, or failure.
RECURSIVE decode_from(_, _, _)
decode_from(encoded, i, padding) ==
    IF i >= Len(encoded) THEN [ok |-> TRUE, bytes |-> <<>>]
    ELSE IF ~group_ok(encoded, i, padding)
    THEN [ok |-> FALSE, bytes |-> <<>>]
    ELSE LET rest == decode_from(encoded, i + 4, padding)
         IN IF rest.ok
            THEN [ok |-> TRUE,
                  bytes |-> group_bytes(group_values(encoded, i)) \o rest.bytes]
            ELSE rest

\* A decoder that refuses the empty text.
base64_decode_empty_is_error(encoded) ==
    IF Len(encoded) % 4 # 0 \/ encoded = <<>>
    THEN [ec |-> invalid_base64_encoding, bytes |-> <<>>]
    ELSE LET r == decode_from(encoded, 0, padding_count(encoded))
         IN IF r.ok THEN [ec |-> success, bytes |-> r.bytes]
            ELSE [ec |-> invalid_base64_encoding, bytes |-> <<>>]

\* A decoder that gives nothing, and no error, for a text whose length is not
\* a multiple of 4.
base64_decode_any_length(encoded) ==
    IF encoded = <<>> THEN [ec |-> success, bytes |-> <<>>]
    ELSE IF Len(encoded) % 4 # 0
    THEN [ec |-> success, bytes |-> <<>>]
    ELSE LET r == decode_from(encoded, 0, padding_count(encoded))
         IN IF r.ok THEN [ec |-> success, bytes |-> r.bytes]
            ELSE [ec |-> invalid_base64_encoding, bytes |-> <<>>]

\* std::expected<std::vector<uint8_t>, std::error_code> base64_decode(encoded)
\* [ec |-> success, bytes |-> the value] or [ec |-> the error, bytes |-> <<>>].
base64_decode(encoded) ==
    IF encoded = <<>> THEN [ec |-> success, bytes |-> <<>>]
    ELSE IF Len(encoded) % 4 # 0
    THEN [ec |-> invalid_base64_encoding, bytes |-> <<>>]
    ELSE LET r == decode_from(encoded, 0, padding_count(encoded))
         IN IF r.ok THEN [ec |-> success, bytes |-> r.bytes]
            ELSE [ec |-> invalid_base64_encoding, bytes |-> <<>>]

---------------------------------------------------------------------------
(* The codec's caller: it holds a byte sequence, encodes it, and decodes    *)
(* the text it got.                                                         *)

ByteVals == {0, 1, 77, 97, 254, 255}

Encode ==
    /\ b64.pc = "start"
    /\ b64' = [b64 EXCEPT !.pc = "encoded", !.text = base64_encode(b64.input)]
    /\ UNCHANGED <<live, fd_, os, given, last, io, sig, err>>

Decode ==
    /\ b64.pc = "encoded"
    /\ LET r == base64_decode(b64.text)
       IN b64' = [b64 EXCEPT !.pc = "decoded", !.ec = r.ec, !.out = r.bytes]
    /\ UNCHANGED <<live, fd_, os, given, last, io, sig, err>>

InitCodec ==
    /\ InitConn
    /\ b64 \in {[B64Idle EXCEPT !.pc = "start", !.input = x] :
                   x \in SeqsUpTo(ByteVals, MaxLen)}

NextCodec == Encode \/ Decode

SpecCodec == InitCodec /\ [][NextCodec]_vars

\* std::expected<std::string, std::error_code> base64_decode_string(encoded):
\* the error of base64_decode, or its bytes as the characters of a string.
base64_decode_string(encoded) ==
    LET decoded == base64_decode(encoded)
    IN IF decoded.ec # success THEN [ec |-> decoded.ec, str |-> <<>>]
       ELSE [ec |-> success, str |-> decoded.bytes]

---------------------------------------------------------------------------
(* The decoder's caller: it holds any text, well-formed or not, and decodes *)
(* it.  The characters are two of the alphabet whose values differ in the   *)
(* lowest bit, the padding character, and one outside the alphabet.         *)

TextChars == {"Q", "R", "=", "@"}

DecodeText ==
    /\ b64.pc = "text"
    /\ LET r == base64_decode(b64.text)
       IN b64' = [b64 EXCEPT !.pc = "decoded", !.ec = r.ec, !.out = r.bytes]
    /\ UNCHANGED <<live, fd_, os, given, last, io, sig, err>>

InitDecode ==
    /\ InitConn
    /\ b64 \in {[B64Idle EXCEPT !.pc = "text", !.text = t] :
                   t \in SeqsUpTo(TextChars, MaxText)}

NextDecode == DecodeText

SpecDecode == InitDecode /\ [][NextDecode]_vars

---------------------------------------------------------------------------
(* A writer and a reader on the two ends of one pair, as the connection    *)
(* tests drive them: the writer sends a payload by resubmitting what has   *)
(* not been accepted yet, the reader reads into buffers of any size, and   *)
(* either end may call close().  The process installs no signal handler    *)
(* and the descriptors are the ends of a local pair, so the kernel reports *)
(* none of FaultErrnos here.                                               *)

writer == 1
reader == 2

\* The byte values of a payload.
IoBytes == {0, 1}

\* The results of a call in which the kernel reported no fault.
Healthy(R) == {r \in R : r.errno \notin FaultErrnos}

\* auto [fd1, fd2] = create_socket_pair(); Connection writer(fd1);
\* Connection reader(fd2); and a payload to send.  The writer's transport may
\* or may not be one that lingers.
InitIo ==
    /\ live = [c \in Conns |-> c \in {writer, reader}]
    /\ \E lg \in BOOLEAN :
          LET m0 == [fd |-> [c \in Conns |-> NoFd],
                     os |-> [InitOs EXCEPT !.lingers[0] = lg],
                     calls |-> <<>>]
              m1 == Connection_ctor(m0, writer, 0)
              m2 == Connection_ctor(m1, reader, 1)
          IN fd_ = m2.fd /\ os = m2.os
    /\ given = [h \in Handles |-> h \in {0, 1}]
    /\ last = NoCall
    /\ io \in {[NoIo EXCEPT !.payload = p] : p \in SeqsUpTo(IoBytes, MaxPayload) \ {<<>>}}
    /\ sig = SigStart
    /\ err = ErrIdle
    /\ InitB64

\* One turn of the writer's loop: writer.write(remaining, bytes_written) and
\* total_written += bytes_written.  io.sent is the payload accepted so far,
\* io.late counts the writes made after the reader closed (up to two).
\* io.bytes_written is the writer's output variable, one variable for all its
\* writes, and io.held the value that variable (or the reader's) held when
\* the last call was made.
IoWrite ==
    /\ Idle
    /\ Len(io.sent) < Len(io.payload)
    /\ LET remaining == SubSeq(io.payload, Len(io.sent) + 1, Len(io.payload))
       IN \E r \in Healthy(Connection_write(Machine, writer, remaining, io.bytes_written)) :
             /\ fd_' = r.m.fd
             /\ os' = r.m.os
             /\ last' = [Call("write", writer, r.m) EXCEPT !.req = Len(remaining),
                             !.ret = r.ret, !.errno = r.errno, !.ec = r.ec,
                             !.n = r.n, !.data = remaining]
             /\ io' = [io EXCEPT
                         !.sent = IF r.ec = success THEN @ \o SubSeq(remaining, 1, r.n)
                                  ELSE @,
                         !.late = IF fd_[writer] # NoFd /\ fd_[reader] = NoFd
                                  THEN Min(@ + 1, 2) ELSE @,
                         !.bytes_written = r.n,
                         !.held = io.bytes_written]
    /\ UNCHANGED <<live, given, b64, sig, err>>

\* reader.read(buffer, bytes_read) with a buffer of cap bytes.  io.rcvd is
\* what the reads have returned so far, io.eof that one of them returned
\* connection_closed, io.bytes_read the reader's output variable.
IoRead(cap) ==
    /\ Idle
    /\ \E r \in Healthy(Connection_read(Machine, reader, cap, io.bytes_read)) :
          /\ fd_' = r.m.fd
          /\ os' = r.m.os
          /\ last' = [Call("read", reader, r.m) EXCEPT !.req = cap, !.ret = r.ret,
                          !.errno = r.errno, !.ec = r.ec, !.n = r.n, !.data = r.data]
          /\ io' = [io EXCEPT
                      !.rcvd = IF r.ec = success THEN @ \o SubSeq(r.data, 1, r.n)
                               ELSE @,
                      !.eof = @ \/ r.ec = connection_closed,
                      !.bytes_read = r.n,
                      !.held = io.bytes_read]
    /\ UNCHANGED <<live, given, b64, sig, err>>

\* writer.close() or reader.close()
IoClose(c) ==
    /\ Idle
    /\ LET m == Connection_close(Machine, c)
       IN /\ fd_' = m.fd
          /\ os' = m.os
          /\ last' = Call("close", c, m)
    /\ UNCHANGED <<live, given, b64, io, sig, err>>

NextIo ==
    \/ IoWrite
    \/ \E cap \in 0..MaxIo : IoRead(cap)
    \/ \E c \in {writer, reader} : IoClose(c)
    \/ Return

\* The writer's loop keeps turning while payload is left, the reader keeps
\* reading, and a call that was made returns.
FairIo ==
    /\ SF_vars(IoWrite)
    /\ SF_vars(\E cap \in 1..MaxIo : IoRead(cap))
    /\ WF_vars(Return)

SpecIo == InitIo /\ [][NextIo]_vars /\ FairIo

---------------------------------------------------------------------------
(* signal_handler: the shutdown flag and the signals of the process *)

\* The signals setup() installs handle_signal for.
ShutdownSignals == {"SIGTERM", "SIGINT", "SIGHUP"}

\* The signals sent to the process: the three above, one whose default
\* disposition terminates the process and one whose default is to be ignored.
Signals == ShutdownSignals \cup {"SIGUSR1", "SIGCHLD"}

\* Signals the kernel discards when no handler is installed.
IgnoredByDefault == {"SIGCHLD"}

\* handle_signal with a switch that has no case for SIGHUP.
handle_signal_without_sighup(flag, signal) ==
    IF signal \in {"SIGTERM", "SIGINT"} THEN TRUE ELSE flag

\* handle_signal(signal): the value of shutdown_requested_ after the handler
\* ran on `signal` with the flag at `flag`.  The newline written to stderr on
\* SIGINT is not state of the program.
handle_signal(flag, signal) ==
    IF signal \in ShutdownSignals THEN TRUE ELSE flag

\* should_shutdown() that never sees the store of the handler.
should_shutdown_never(flag) == FALSE

\* should_shutdown(): shutdown_requested_.load(acquire).
should_shutdown(flag) == flag

\* reset(): shutdown_requested_.store(false, release).
reset(flag) == FALSE

\* setup(): sigaction for SIGTERM, SIGINT and SIGHUP with handle_signal as the
\* handler; the flag is not touched.
setup(s) == [s EXCEPT !.installed = @ \cup ShutdownSignals]

\* The program calls signal_handler::reset().
SigReset ==
    /\ sig.alive
    /\ sig' = [sig EXCEPT !.flag = reset(sig.flag), !.latched = FALSE,
                          !.op = "reset", !.arg = "none"]
    /\ UNCHANGED <<live, fd_, os, given, last, b64, io, err>>

\* The program calls signal_handler::setup().
SigSetup ==
    /\ sig.alive
    /\ sig' = [setup(sig) EXCEPT !.op = "setup", !.arg = "none"]
    /\ UNCHANGED <<live, fd_, os, given, last, b64, io, err>>

\* The program calls signal_handler::should_shutdown() and keeps the answer.
ShouldShutdown ==
    /\ sig.alive
    /\ sig' = [sig EXCEPT !.op = "should_shutdown", !.arg = "none",
                          !.ret = should_shutdown(sig.flag)]
    /\ UNCHANGED <<live, fd_, os, given, last, b64, io, err>>

\* raise() or another process sends signal s; a standard signal that is
\* already pending is not queued a second time.
Raise(s) ==
    /\ sig.alive
    /\ sig.sent < MaxSignals
    /\ sig' = [sig EXCEPT !.pending = @ \cup {s}, !.sent = @ + 1,
                          !.op = "raise", !.arg = s]
    /\ UNCHANGED <<live, fd_, os, given, last, b64, io, err>>

\* The kernel delivers pending signal s.  With the handler installed,
\* handle_signal runs to its end with every signal blocked (sa_mask is full);
\* without one the default disposition applies: the signal is discarded or
\* the process is terminated.
Deliver(s) ==
    /\ sig.alive
    /\ s \in sig.pending
    /\ sig' = IF s \in sig.installed
                THEN [sig EXCEPT !.pending = @ \ {s},
                                 !.flag = handle_signal(sig.flag, s),
                                 !.latched = @ \/ s \in ShutdownSignals,
                                 !.op = "handled", !.arg = s]
              ELSE IF s \in IgnoredByDefault
                THEN [sig EXCEPT !.pending = @ \ {s}, !.op = "ignored", !.arg = s]
                ELSE [sig EXCEPT !.pending = {}, !.alive = FALSE,
                                 !.op = "killed", !.arg = s]
    /\ UNCHANGED <<live, fd_, os, given, last, b64, io, err>>

NextSignal ==
    \/ SigReset
    \/ SigSetup
    \/ ShouldShutdown
    \/ \E s \in Signals : Raise(s)
    \/ \E s \in Signals : Deliver(s)

SpecSignal == Init /\ [][NextSignal]_vars

---------------------------------------------------------------------------
(* The server main: setup(), then the polling loop on should_shutdown()    *)

\* The signals sent to the server while it runs: the three it handles and
\* one that is discarded by default.
MainSignals == ShutdownSignals \cup IgnoredByDefault

\* vsocky::signal_handler::setup() in main, the arguments being parsed.
MainSetup ==
    /\ sig.alive
    /\ sig.pc = "setup"
    /\ sig' = [setup(sig) EXCEPT !.op = "setup", !.arg = "none", !.pc = "poll"]
    /\ UNCHANGED <<live, fd_, os, given, last, b64, io, err>>

\* The test of while (!should_shutdown()): into the body when it is false,
\* out of the loop and return 0 when it is true.
MainPoll ==
    /\ sig.alive
    /\ sig.pc = "poll"
    /\ LET stop == should_shutdown(sig.flag)
       IN sig' = [sig EXCEPT !.op = "should_shutdown", !.arg = "none", !.ret = stop,
                             !.pc = IF stop THEN "exited" ELSE "sleep",
                             !.status = IF stop THEN 0 ELSE @,
                             !.alive = ~stop]
    /\ UNCHANGED <<live, fd_, os, given, last, b64, io, err>>

\* std::this_thread::sleep_for(1s) returns, after its time or cut short by a
\* handled signal.
MainWake ==
    /\ sig.alive
    /\ sig.pc = "sleep"
    /\ sig' = [sig EXCEPT !.op = "sleep_for", !.arg = "none", !.pc = "poll"]
    /\ UNCHANGED <<live, fd_, os, given, last, b64, io, err>>

InitMain ==
    /\ live = [c \in Conns |-> FALSE]
    /\ fd_ = [c \in Conns |-> NoFd]
    /\ os = InitOs
    /\ given = [h \in Handles |-> FALSE]
    /\ last = NoCall
    /\ io = NoIo
    /\ err = ErrIdle
    /\ InitB64
    /\ sig = [SigStart EXCEPT !.pc = "setup"]

NextMain ==
    \/ MainSetup
    \/ MainPoll
    \/ MainWake
    \/ \E s \in MainSignals : Raise(s)
    \/ \E s \in MainSignals : Deliver(s)

\* The main thread keeps running: the test of the loop is evaluated and the
\* sleep ends.
FairMain == WF_vars(MainPoll) /\ WF_vars(MainWake)

SpecMain == InitMain /\ [][NextMain]_vars /\ FairMain

---------------------------------------------------------------------------
(* The error taxonomy: enumerators, their texts and the std::error_code    *)
(* made from them                                                          *)

\* enum class error_code: the enumerators in declaration order; the numeric
\* value of an enumerator is its position, counted from 0.
error_code ==
    << "success",
       "socket_creation_failed", "bind_failed", "listen_failed", "accept_failed",
       "connection_closed", "read_failed", "write_failed",
       "message_too_large", "invalid_message_format", "invalid_json",
       "missing_required_field", "invalid_field_value",
       "unsupported_message_type", "unsupported_language",
       "resource_unavailable", "internal_error",
       "invalid_base64_encoding",
       "timeout", "interrupted" >>

\* The numeric values of the enumeration.
ErrorValues == 0..(Len(error_code) - 1)

\* static_cast<int>(ec) of the enumerator called name.
error_value(name) == CHOOSE v \in ErrorValues : error_code[v + 1] = name

\* The switch of error_to_string, one case per enumerator.
error_text(name) ==
    CASE name = "success" -> success
      [] name = "socket_creation_failed" -> "socket creation failed"
      [] name = "bind_failed" -> "bind failed"
      [] name = "listen_failed" -> "listen failed"
      [] name = "accept_failed" -> "accept failed"
      [] name = "connection_closed" -> connection_closed
      [] name = "read_failed" -> read_failed
      [] name = "write_failed" -> write_failed
      [] name = "message_too_large" -> "message too large"
      [] name = "invalid_message_format" -> "invalid message format"
      [] name = "invalid_json" -> "invalid JSON"
      [] name = "missing_required_field" -> "missing required field"
      [] name = "invalid_field_value" -> "invalid field value"
      [] name = "unsupported_message_type" -> "unsupported message type"
      [] name = "unsupported_language" -> "unsupported language"
      [] name = "resource_unavailable" -> "resource unavailable"
      [] name = "internal_error" -> internal_error
      [] name = "invalid_base64_encoding" -> invalid_base64_encoding
      [] name = "timeout" -> "timeout"
      [] name = "interrupted" -> interrupted

\* error_to_string whose read_failed case returns the text of write_failed.
error_to_string_read_as_write(ev) ==
    IF ev \in ErrorValues
    THEN IF error_code[ev + 1] = "read_failed" THEN write_failed
         ELSE error_text(error_code[ev + 1])
    ELSE "unknown error"

\* error_to_string(static_cast<error_code>(ev)): the text of the enumerator
\* with value ev; a value no case matches falls out of the switch.
error_to_string(ev) ==
    IF ev \in ErrorValues THEN error_text(error_code[ev + 1]) ELSE "unknown error"

\* error_category_impl::name()
error_category_name == "vsocky"

\* error_category_impl::message(int ev)
error_category_message(ev) == error_to_string(ev)

\* make_error_code(ec): the numeric value and the vsocky category.
make_error_code(ev) == [value |-> ev, category |-> error_category_name]

\* std::error_code::message(): category().message(value()).
error_code_message(code) == error_category_message(code.value)

\* The numeric values handed to error_to_string: the enumeration and a few
\* values on each side of it.
TriedValues == (0 - ExtraValues)..(Len(error_code) - 1 + ExtraValues)

\* The caller converts a and b to text, and makes a std::error_code from a.
ErrorToString ==
    /\ err.pc = "values"
    /\ LET code == make_error_code(err.a)
       IN err' = [err EXCEPT !.pc = "texts",
                             !.ta = error_to_string(err.a),
                             !.tb = error_to_string(err.b),
                             !.cat = code.category,
                             !.msg = error_code_message(code)]
    /\ UNCHANGED <<live, fd_, os, given, last, b64, io, sig>>

InitError ==
    /\ live = [c \in Conns |-> FALSE]
    /\ fd_ = [c \in Conns |-> NoFd]
    /\ os = InitOs
    /\ given = [h \in Handles |-> FALSE]
    /\ last = NoCall
    /\ io = NoIo
    /\ sig = SigStart
    /\ InitB64
    /\ err \in {[ErrIdle EXCEPT !.pc = "values", !.a = a, !.b = b] :
                   a \in TriedValues, b \in TriedValues}

NextError == ErrorToString

SpecError == InitError /\ [][NextError]_vars

---------------------------------------------------------------------------
(* Properties *)

\* The live Connection objects whose fd_ is h.
Owners(h) == {c \in Conns : live[c] /\ fd_[c] = h}

\* The objects and the kernel, without the record of the last call.
Frame == <<live, fd_, os, given>>

\* What a write of data through c would return in the current state, given
\* that the kernel reports no fault: issued on descriptor h, successful, and
\* all of data accepted when the peer is open and has room for it.
WriteWorks(c, h, data) ==
    /\ \A r \in Connection_write(Machine, c, data, 0) :
          /\ r.m.calls = << <<"write", h>> >>
          /\ r.errno = "none" => r.ec = success /\ r.n = r.ret
    /\ (os.open[Peer(h)] /\ Len(os.rxq[Peer(h)]) + Len(data) <= SockBuf)
          => \E r \in Connection_write(Machine, c, data, 0) :
                r.ec = success /\ r.n = Len(data)

\* C1: at most one live Connection holds a given OS handle, whatever sequence
\* of constructions, moves, closes and destructions took place.
C1_ExclusiveOwnership ==
    \A h \in Handles : Cardinality(Owners(h)) <= 1

\* A handle went from one live object to another by move assignment and has
\* one owner.
C1_Witness ==
    /\ last.op = "move_assign"
    /\ last.c # last.src
    /\ last.sfd \in Handles
    /\ live[last.src]
    /\ Owners(last.sfd) = {last.c}

\* C2: the OS close is issued at most once for every handle, and has been
\* issued once as soon as a handle that was given to a Connection has no live
\* Connection holding it.
C2_ReleasedExactlyOnce ==
    \A h \in Handles :
        /\ os.closeCalls[h] <= 1
        /\ (given[h] /\ Owners(h) = {}) => os.closeCalls[h] = 1

\* The destructor of a handle-less object ran (after close() or a move), no
\* object is left, and a handle that was given out has been closed once.
C2_Witness ==
    /\ last.op = "destroy"
    /\ last.fd = NoFd
    /\ \A c \in Conns : ~live[c]
    /\ \E h \in Handles : given[h] /\ os.closeCalls[h] = 1

\* C3: decoding the encoding of a byte sequence succeeds and gives the byte
\* sequence back.
C3_RoundTrip ==
    b64.pc = "decoded" => b64.ec = success /\ b64.out = b64.input

\* A sequence starting 0x00, 0xFF whose last group has two bytes went through
\* encode and decode.
C3_Witness ==
    /\ b64.pc = "decoded"
    /\ Len(b64.input) % 3 = 2
    /\ b64.input[1] = 0
    /\ b64.input[2] = 255
    /\ b64.out = b64.input

\* C4: after B is move-constructed from A, which owned handle h, B is valid
\* with fd() = h, A is not valid with fd() = -1, h has not been released, and
\* a write through B is issued on h and succeeds with the expected count.
C4_MoveConstructed ==
    (last.op = "move_construct" /\ last.sfd \in Handles) =>
        /\ is_valid(last.c)
        /\ fd(last.c) = last.sfd
        /\ ~is_valid(last.src)
        /\ fd(last.src) = -1
        /\ last.calls = <<>>
        /\ os.open[last.sfd]
        /\ os.closeCalls[last.sfd] = 0
        /\ \A data \in SeqsUpTo(DataBytes, MaxIo) \ {<<>>} :
              WriteWorks(last.c, last.sfd, data)

\* B was move-constructed from the owner of a handle whose peer is open and
\* has room for a write.
C4_Witness ==
    /\ last.op = "move_construct"
    /\ last.sfd \in Handles
    /\ fd(last.c) = last.sfd
    /\ os.open[Peer(last.sfd)]
    /\ os.rxq[Peer(last.sfd)] = <<>>

\* C5: move-assigning another object S into T issues one OS close, on the
\* handle T owned (none if T owned none), and on no other; then T holds what S
\* held and S holds nothing.
C5_MoveAssigned ==
    (last.op = "move_assign" /\ last.c # last.src) =>
        /\ fd(last.c) = last.sfd
        /\ fd(last.src) = -1
        /\ last.calls = IF last.fd # NoFd THEN << <<"close", last.fd>> >> ELSE <<>>
        /\ last.fd \in Handles =>
              ~os.open[last.fd] /\ os.closeCalls[last.fd] = 1
        /\ last.sfd \in Handles =>
              os.open[last.sfd] /\ os.closeCalls[last.sfd] = 0

\* T owned one handle and S another when S was move-assigned into T.
C5_Witness ==
    /\ last.op = "move_assign"
    /\ last.c # last.src
    /\ last.fd \in Handles
    /\ last.sfd \in Handles
    /\ fd(last.c) = last.sfd

\* C6: self-move-assignment changes nothing: no OS call, the objects and the
\* kernel as before, and a write through the object still works.
C6_SelfMoveNoOp ==
    /\ [](  (last.op = "move_assign" /\ last.c = last.src) =>
              /\ last.calls = <<>>
              /\ fd(last.c) = last.fd
              /\ last.fd \in Handles =>
                    /\ is_valid(last.c)
                    /\ os.open[last.fd]
                    /\ os.closeCalls[last.fd] = 0
                    /\ \A data \in SeqsUpTo(DataBytes, MaxIo) \ {<<>>} :
                          WriteWorks(last.c, last.fd, data))
    /\ [][(last'.op = "move_assign" /\ last'.c = last'.src) => UNCHANGED Frame]_vars

\* An object owning a handle was move-assigned to itself and still owns it.
C6_Witness ==
    /\ last.op = "move_assign"
    /\ last.c = last.src
    /\ last.fd \in Handles
    /\ fd(last.c) = last.fd

\* C7: after close() the object is not valid; close() on an object that is
\* already handle-less issues no OS call and changes nothing.
C7_CloseIdempotent ==
    /\ [](last.op = "close" =>
             /\ ~is_valid(last.c)
             /\ last.fd = NoFd => last.calls = <<>>)
    /\ [][(last'.op = "close" /\ fd_[last'.c] = NoFd) => UNCHANGED Frame]_vars

\* close() was called on an object that holds nothing, after a handle had
\* been released by an earlier close.
C7_Witness ==
    /\ last.op = "close"
    /\ last.fd = NoFd
    /\ last.calls = <<>>
    /\ \E h \in Handles : given[h] /\ os.closeCalls[h] = 1 /\ Owners(h) = {}

HandlelessOps == {"read", "write", "peer_cid", "peer_port", "set_non_blocking", "close"}

\* C8: on a Connection that holds no handle, read and write return
\* connection-closed with 0 bytes, the peer queries return nothing, close()
\* does nothing, and no system call is made.
C8_Handleless ==
    /\ []((last.op \in HandlelessOps /\ last.fd = NoFd) =>
             /\ last.calls = <<>>
             /\ fd(last.c) = -1
             /\ last.op \in {"read", "write"} =>
                   last.ec = connection_closed /\ last.n = 0
             /\ last.op = "set_non_blocking" => last.ec = connection_closed
             /\ last.op \in {"peer_cid", "peer_port"} => last.opt = <<>>)
    /\ [][(last'.op \in HandlelessOps /\ fd_[last'.c] = NoFd)
             => UNCHANGED Frame]_vars

\* A non-empty write was tried on a handle-less object while another object
\* owns a handle.
C8_Witness ==
    /\ last.op = "write"
    /\ last.fd = NoFd
    /\ last.req > 0
    /\ last.ec = connection_closed
    /\ \E h \in Handles : Owners(h) # {}

\* C9: a read that finds nothing available returns success with 0 bytes; a
\* read of a stream whose peer has closed and that gets no data never returns
\* success; success with 0 bytes from a non-empty buffer happens only when the
\* kernel said would-block, the peer being still open.
C9_WouldBlockIsNotEof ==
    (last.op = "read" /\ last.req > 0 /\ last.fd \in Handles) =>
        /\ last.errno = "EAGAIN" => last.ec = success /\ last.n = 0
        /\ (~os.open[Peer(last.fd)] /\ last.ret <= 0) => last.ec # success
        /\ (last.ec = success /\ last.n = 0) =>
              /\ last.errno = "EAGAIN"
              /\ os.open[Peer(last.fd)]
              /\ os.rxq[last.fd] = <<>>

\* A read on an open connection with nothing to read returned success, 0.
C9_Witness ==
    /\ last.op = "read"
    /\ last.errno = "EAGAIN"
    /\ last.ec = success
    /\ last.n = 0
    /\ os.open[Peer(last.fd)]

\* C10: a read whose OS call returns 0 or fails with ECONNRESET returns
\* connection-closed with 0 bytes.
C10_EofAndResetAreClosed ==
    (last.op = "read" /\ last.calls # <<>> /\ (last.ret = 0 \/ last.errno = "ECONNRESET")) =>
        last.ec = connection_closed /\ last.n = 0

\* The OS call of a read failed with ECONNRESET after the peer had closed.
C10_Witness ==
    /\ last.op = "read"
    /\ last.calls = << <<"read", last.fd>> >>
    /\ last.errno = "ECONNRESET"
    /\ last.ec = connection_closed

\* C12: a write of N > 0 bytes on a healthy connection (descriptor and peer
\* open, no fault reported) whose peer has room for M bytes returns success
\* with bytes_written = min(N, M), so M when M < N and 0 when the buffer is
\* full, never an error; and no write reports more than N bytes.
C12_PartialWrite ==
    /\ last.op = "write" => last.n <= last.req
    /\ (last.op = "write" /\ last.req > 0 /\ IsOpen(os, last.fd)
          /\ os.open[Peer(last.fd)] /\ last.errno \notin FaultErrnos) =>
           LET taken == IF last.ret > 0 THEN last.ret ELSE 0
               room == SockBuf - (Len(os.rxq[Peer(last.fd)]) - taken)
           IN /\ last.ec = success
              /\ last.n = Min(last.req, room)

\* A write asked for more than the peer had room for and part of it was taken.
C12_Witness ==
    /\ last.op = "write"
    /\ last.fd \in Handles
    /\ os.open[Peer(last.fd)]
    /\ last.ec = success
    /\ 0 < last.n
    /\ last.n < last.req
    /\ Len(os.rxq[Peer(last.fd)]) = SockBuf

\* C15: a read or write whose system call fails with EINTR returns
\* interrupted with 0 bytes, and the call leaves the objects and the kernel as
\* they were, the object still holding its descriptor.
C15_Interrupted ==
    /\ []((last.op \in {"read", "write"} /\ last.errno = "EINTR") =>
             /\ last.ec = interrupted
             /\ last.n = 0
             /\ fd(last.c) = last.fd)
    /\ [][(last'.op \in {"read", "write"} /\ last'.errno = "EINTR")
             => UNCHANGED Frame]_vars

\* A write with room at the peer was interrupted; the same call is possible
\* again.
C15_Witness ==
    /\ last.op = "write"
    /\ last.errno = "EINTR"
    /\ last.ec = interrupted
    /\ os.open[Peer(last.fd)]
    /\ os.rxq[Peer(last.fd)] = <<>>
    /\ WriteWorks(last.c, last.fd, last.data)

\* errno values of errno.h, those the code names and others.
Errnos ==
    {"EAGAIN", "EINTR", "ECONNRESET", "EPIPE", "EBADF", "ENOTCONN", "ENOTSOCK",
     "EIO", "EINVAL", "EFAULT", "ENOMEM"}

\* C16: read returns only success, connection-closed, interrupted or
\* read-failed, write only success, connection-closed, interrupted or
\* write-failed; a failed system call whose errno is not EAGAIN, EINTR,
\* ECONNRESET (or EPIPE for write) gives read-failed, respectively write-failed.
C16_ClosedOutcomeSets ==
    /\ last.op = "read" =>
          /\ last.ec \in {success, connection_closed, interrupted, read_failed}
          /\ (last.ret < 0 /\ last.errno \notin {"EAGAIN", "EINTR", "ECONNRESET"})
                => last.ec = read_failed
    /\ last.op = "write" =>
          /\ last.ec \in {success, connection_closed, interrupted, write_failed}
          /\ (last.ret < 0 /\ last.errno \notin {"EAGAIN", "EINTR", "ECONNRESET", "EPIPE"})
                => last.ec = write_failed
    /\ \A e \in Errnos \ {"EAGAIN", "EINTR", "ECONNRESET"} :
          read_outcome(-1, e).ec = read_failed
    /\ \A e \in Errnos \ {"EAGAIN", "EINTR", "ECONNRESET", "EPIPE"} :
          write_outcome(-1, e).ec = write_failed

\* The system call of a write failed with an errno the code does not name.
C16_Witness ==
    /\ last.op = "write"
    /\ last.calls = << <<"write", last.fd>> >>
    /\ last.errno = "EIO"
    /\ last.ec = write_failed

\* C17: a write whose system call fails with EPIPE or ECONNRESET returns
\* connection-closed with 0 bytes; one whose system call fails with EAGAIN
\* returns success with 0 bytes.
C17_WriteErrnoMapping ==
    (last.op = "write" /\ last.calls # <<>> /\ last.ret < 0) =>
        /\ last.errno \in {"EPIPE", "ECONNRESET"} =>
              last.ec = connection_closed /\ last.n = 0
        /\ last.errno = "EAGAIN" => last.ec = success /\ last.n = 0

\* The peer had closed and the system call of a write failed with EPIPE.
C17_Witness ==
    /\ last.op = "write"
    /\ last.errno = "EPIPE"
    /\ ~os.open[Peer(last.fd)]
    /\ last.ec = connection_closed
    /\ last.n = 0

\* C19 as stated: a read into a buffer of zero bytes and a write of empty
\* input return success with 0 bytes and make no system call, whatever the
\* object holds.
C19_Original ==
    (last.op \in {"read", "write"} /\ last.req = 0) =>
        /\ last.ec = success
        /\ last.n = 0
        /\ last.calls = <<>>

\* C19: on a Connection that holds a handle, a read into a buffer of zero
\* bytes and a write of empty input return success with 0 bytes, make no
\* system call and change nothing.
C19_ZeroLength ==
    /\ []((last.op \in {"read", "write"} /\ last.req = 0 /\ last.fd # NoFd) =>
             /\ last.ec = success
             /\ last.n = 0
             /\ last.calls = <<>>)
    /\ [][(last'.op \in {"read", "write"} /\ last'.req = 0) => UNCHANGED Frame]_vars

\* A read into a buffer of zero bytes was made while bytes were waiting.
C19_Witness ==
    /\ last.op = "read"
    /\ last.req = 0
    /\ last.fd \in Handles
    /\ os.rxq[last.fd] # <<>>
    /\ last.ec = success
    /\ last.calls = <<>>

\* C20: the descriptor of every Connection built from an open descriptor is
\* in non-blocking mode, also after it has moved to another object; so the
\* system call of any read or write through it returns, with success and 0
\* bytes when nothing is there to read or no room is left to write.
C20_NeverSuspends ==
    /\ \A c \in Conns :
          (live[c] /\ IsOpen(os, fd_[c])) =>
              /\ os.nonblock[fd_[c]]
              /\ \A cap \in 1..MaxIo :
                    /\ \E r \in Connection_read(Machine, c, cap, 0) :
                          r.errno \notin FaultErrnos
                    /\ (os.rxq[fd_[c]] = <<>> /\ os.open[Peer(fd_[c])]) =>
                          \A r \in Connection_read(Machine, c, cap, 0) :
                             r.errno \notin FaultErrnos => r.ec = success /\ r.n = 0
              /\ \A data \in SeqsUpTo(DataBytes, MaxIo) \ {<<>>} :
                    /\ \E r \in Connection_write(Machine, c, data, 0) :
                          r.errno \notin FaultErrnos
                    /\ (os.open[Peer(fd_[c])] /\ Len(os.rxq[Peer(fd_[c])]) = SockBuf) =>
                          \A r \in Connection_write(Machine, c, data, 0) :
                             r.errno \notin FaultErrnos => r.ec = success /\ r.n = 0
    /\ (last.op \in {"read", "write"} /\ last.errno = "EAGAIN") =>
          last.ec = success /\ last.n = 0

\* A write found the peer's buffer full and returned at once, with success
\* and 0 bytes.
C20_Witness ==
    /\ last.op = "write"
    /\ last.errno = "EAGAIN"
    /\ os.nonblock[last.fd]
    /\ Len(os.rxq[Peer(last.fd)]) = SockBuf
    /\ last.ec = success
    /\ last.n = 0

IsPrefix(a, b) == Len(a) <= Len(b) /\ a = SubSeq(b, 1, Len(a))

C11_ClosureSeen ==
    /\ (fd_[writer] = NoFd) ~> io.eof
    /\ []((io.eof /\ fd_[reader] # NoFd) =>
             /\ fd_[writer] = NoFd
             /\ io.rcvd = io.sent)
    /\ [][io.eof => (io'.rcvd = io.rcvd /\ (last'.op = "read" => last'.n = 0))]_vars

\* The writer has closed; the reader has been given every byte that was
\* accepted and then connection-closed by a read of its descriptor.
C11_Witness ==
    /\ last.op = "read"
    /\ last.calls = << <<"read", last.fd>> >>
    /\ last.ec = connection_closed
    /\ io.eof
    /\ fd_[writer] = NoFd
    /\ io.rcvd = io.sent
    /\ io.sent # <<>>

C22_CleanupSwallowsErrors ==
    /\ [](last.op \in {"close", "destroy"} =>
             /\ ~is_valid(last.c)
             /\ fd(last.c) = -1
             /\ last.calls = IF last.fd # NoFd THEN << <<"close", last.fd>> >> ELSE <<>>)
    /\ [](\A h \in Handles : os.closeCalls[h] <= 1)
    /\ [][(last'.op \in {"close", "destroy"} /\ fd_[last'.c] # NoFd
             /\ ~IsOpen(os, fd_[last'.c]))
            => (fd_'[last'.c] = NoFd /\ os' = os)]_vars

\* close() was called on an object whose descriptor is not open: ::close
\* failed and the object holds nothing.
C22_Witness ==
    /\ last.op = "close"
    /\ last.fd \notin Handles \cup {NoFd}
    /\ last.calls = << <<"close", last.fd>> >>
    /\ fd(last.c) = -1

\* C23: decoding a text whose length is not a multiple of 4 fails with
\* invalid-encoding and gives no bytes, whatever its characters.
C23_LengthNotMultipleOf4 ==
    (b64.pc = "decoded" /\ Len(b64.text) % 4 # 0) =>
        /\ b64.ec = invalid_base64_encoding
        /\ b64.out = <<>>

\* A text of five characters, all of the alphabet, was refused.
C23_Witness ==
    /\ b64.pc = "decoded"
    /\ Len(b64.text) = 5
    /\ \A i \in 1..5 : b64.text[i] \in {"Q", "R"}
    /\ b64.ec = invalid_base64_encoding

\* The 65 symbols: the alphabet and the padding character.
Base64Symbols == {encode_table[i] : i \in 1..64} \cup {"="}

\* C24: decoding a text that has a character outside the 65 symbols fails
\* with invalid-encoding and gives no bytes, wherever the character is and
\* whatever the length of the text.
C24_InvalidCharacter ==
    (b64.pc = "decoded" /\ \E i \in 1..Len(b64.text) : b64.text[i] \notin Base64Symbols) =>
        /\ b64.ec = invalid_base64_encoding
        /\ b64.out = <<>>

\* A text of two groups whose last character only is outside the alphabet
\* was refused.
C24_Witness ==
    /\ b64.pc = "decoded"
    /\ Len(b64.text) = 8
    /\ \A i \in 1..7 : b64.text[i] \in {"Q", "R"}
    /\ b64.text[8] \notin Base64Symbols
    /\ b64.ec = invalid_base64_encoding

\* C25: decoding a text of length a multiple of 4 that has '=' anywhere but
\* in its last position, or in its last two positions, fails with
\* invalid-encoding: '=' in an earlier group, in the first or second place of
\* the last group, or in the third place when the fourth is not '='.
C25_PaddingPosition ==
    (b64.pc = "decoded" /\ Len(b64.text) % 4 = 0
       /\ \E i \in 1..Len(b64.text) :
             /\ b64.text[i] = "="
             /\ \/ i <= Len(b64.text) - 2
                \/ (i = Len(b64.text) - 1 /\ b64.text[Len(b64.text)] # "=")) =>
        /\ b64.ec = invalid_base64_encoding
        /\ b64.out = <<>>

\* A text of one group with '=' in the third place and an alphabet character
\* in the fourth was refused.
C25_Witness ==
    /\ b64.pc = "decoded"
    /\ Len(b64.text) = 4
    /\ b64.text[1] \in {"Q", "R"}
    /\ b64.text[2] \in {"Q", "R"}
    /\ b64.text[3] = "="
    /\ b64.text[4] \in {"Q", "R"}
    /\ b64.ec = invalid_base64_encoding

\* The number of '=' at the end of a text.
RECURSIVE TrailingPads(_)
TrailingPads(t) ==
    IF t # <<>> /\ t[Len(t)] = "=" THEN 1 + TrailingPads(SubSeq(t, 1, Len(t) - 1)) ELSE 0

\* C26: a text the decoder accepts has length 4k and p <= 2 trailing '=', and
\* the result has 3k - p bytes.
C26_DecodedSize ==
    (b64.pc = "decoded" /\ b64.ec = success) =>
        /\ Len(b64.text) % 4 = 0
        /\ TrailingPads(b64.text) <= 2
        /\ Len(b64.out) = 3 * (Len(b64.text) \div 4) - TrailingPads(b64.text)

\* A text of two groups ending in two '=' was decoded to four bytes.
C26_Witness ==
    /\ b64.pc = "decoded"
    /\ b64.ec = success
    /\ Len(b64.text) = 8
    /\ TrailingPads(b64.text) = 2
    /\ Len(b64.out) = 4

RefBits(b) == [i \in 1..8 |-> (b \div (2 ^ (8 - i))) % 2]

RECURSIVE RefBitString(_)
RefBitString(data) ==
    IF data = <<>> THEN <<>> ELSE RefBits(data[1]) \o RefBitString(Tail(data))

RefUpper ==
    << "A", "B", "C", "D", "E", "F", "G", "H", "I", "J", "K", "L", "M",
       "N", "O", "P", "Q", "R", "S", "T", "U", "V", "W", "X", "Y", "Z" >>

RefLower ==
    << "a", "b", "c", "d", "e", "f", "g", "h", "i", "j", "k", "l", "m",
       "n", "o", "p", "q", "r", "s", "t", "u", "v", "w", "x", "y", "z" >>

RefDigits == << "0", "1", "2", "3", "4", "5", "6", "7", "8", "9" >>

RefSymbol(v) ==
    IF v < 26 THEN RefUpper[v + 1]
    ELSE IF v < 52 THEN RefLower[v - 25]
    ELSE IF v < 62 THEN RefDigits[v - 51]
    ELSE IF v = 62 THEN "+" ELSE "/"

RECURSIVE RefSixes(_)
RefSixes(bits) ==
    IF bits = <<>> THEN <<>>
    ELSE LET six == [i \in 1..6 |-> IF i <= Len(bits) THEN bits[i] ELSE 0]
             v == 32 * six[1] + 16 * six[2] + 8 * six[3] + 4 * six[4] + 2 * six[5] + six[6]
         IN << RefSymbol(v) >>
            \o RefSixes(IF Len(bits) > 6 THEN SubSeq(bits, 7, Len(bits)) ELSE <<>>)

RefEncode(data) ==
    LET symbols == RefSixes(RefBitString(data))
    IN symbols \o [i \in 1..((4 - (Len(symbols) % 4)) % 4) |-> "="]

\* C28: the encoding of every byte sequence is its reference standard-alphabet
\* base64 encoding; in particular "abc" gives "YWJj", "abcd" gives
\* "YWJjZA==", "abcde" gives "YWJjZGU=" and "Hello, World!" gives
\* "SGVsbG8sIFdvcmxkIQ==".
C28_ReferenceEncoding ==
    /\ b64.pc \in {"encoded", "decoded"} => b64.text = RefEncode(b64.input)
    /\ base64_encode(<< 97, 98, 99 >>) = << "Y", "W", "J", "j" >>
    /\ base64_encode(<< 97, 98, 99, 100 >>) =
          << "Y", "W", "J", "j", "Z", "A", "=", "=" >>
    /\ base64_encode(<< 97, 98, 99, 100, 101 >>) =
          << "Y", "W", "J", "j", "Z", "G", "U", "=" >>
    /\ base64_encode(<< 72, 101, 108, 108, 111, 44, 32, 87, 111, 114, 108, 100, 33 >>) =
          << "S", "G", "V", "s", "b", "G", "8", "s", "I", "F", "d", "v", "c", "m", "x", "k", "I", "Q", "=", "=" >>

\* The bytes 0x00, 0x01, 0xFF were encoded to "AAH/".
C28_Witness ==
    /\ b64.pc = "encoded"
    /\ b64.input = << 0, 1, 255 >>
    /\ b64.text = << "A", "A", "H", "/" >>

\* C29: the encoding of the empty byte sequence is the empty text, and
\* decoding the empty text, to bytes or to a string, succeeds with an empty
\* result.
C29_Empty ==
    /\ (b64.pc \in {"encoded", "decoded"} /\ b64.input = <<>>) => b64.text = <<>>
    /\ (b64.pc = "decoded" /\ b64.text = <<>>) => (b64.ec = success /\ b64.out = <<>>)
    /\ base64_decode_string(<<>>) = [ec |-> success, str |-> <<>>]

\* The empty byte sequence went through encode and decode.
C29_Witness ==
    /\ b64.pc = "decoded"
    /\ b64.input = <<>>
    /\ b64.text = <<>>
    /\ b64.ec = success
    /\ b64.out = <<>>

\* C30: the shutdown flag is a latch.  After reset() the flag is false and
\* setup() leaves it as it was; every should_shutdown() returns true exactly
\* when SIGTERM, SIGINT or SIGHUP was handled since the last reset(), so once
\* one of them is delivered every later read is true until reset(); the flag
\* rises only in the handling of one of these three signals, and
\* handle_signal leaves it alone on every other signal.
C30_ShutdownLatch ==
    /\ [](/\ sig.op = "reset" => ~sig.flag
          /\ sig.flag = sig.latched
          /\ sig.op = "should_shutdown" => sig.ret = sig.latched
          /\ \A s \in Signals \ ShutdownSignals : \A f \in BOOLEAN :
                handle_signal(f, s) = f)
    /\ [][/\ sig'.op = "setup" => sig'.flag = sig.flag
          /\ (sig.flag /\ ~sig'.flag) => sig'.op = "reset"
          /\ (~sig.flag /\ sig'.flag) =>
                (sig'.op = "handled" /\ sig'.arg \in ShutdownSignals)]_vars

\* With the handlers installed, every signal of the run was sent and
\* delivered, one of the three was among them, and the should_shutdown() that
\* followed returned true.
C30_Witness ==
    /\ sig.op = "should_shutdown"
    /\ sig.ret
    /\ sig.latched
    /\ sig.installed = ShutdownSignals
    /\ sig.sent = MaxSignals
    /\ sig.pending = {}

\* C31: peer_cid() and peer_port() return nothing without an OS call when the
\* handle is absent, issue one ::getpeername on the owned descriptor
\* otherwise, return nothing when it fails and the context identifier
\* (respectively the port) it reported when it succeeds; neither call changes
\* any Connection or the kernel.
C31_PeerQueries ==
    /\ [](last.op \in {"peer_cid", "peer_port"} =>
            IF last.fd = NoFd
            THEN last.opt = <<>> /\ last.calls = <<>>
            ELSE /\ last.calls = << <<"getpeername", last.fd>> >>
                 /\ last.ret # 0 => last.opt = <<>>
                 /\ last.ret = 0 =>
                       /\ IsOpen(os, last.fd)
                       /\ last.op = "peer_cid" => last.opt = << svm_cid(last.fd) >>
                       /\ last.op = "peer_port" => last.opt = << svm_port(last.fd) >>)
    /\ [][last'.op \in {"peer_cid", "peer_port"} => Frame' = Frame]_vars

\* peer_cid() on a connected descriptor returned the identifier the kernel
\* holds for the other end.
C31_Witness ==
    /\ last.op = "peer_cid"
    /\ last.fd \in Handles
    /\ last.ret = 0
    /\ last.opt = << svm_cid(last.fd) >>

\* C32: error_to_string gives every enumerator a text of its own: two
\* different values of the enumeration never share a text and none has the
\* text "unknown error"; success has the value 0 and the text "success"; the
\* std::error_code made from a value has category name "vsocky" and the same
\* text as its message; a value outside the enumeration gives "unknown error".
C32_ErrorTexts ==
    /\ err.pc = "texts" =>
          /\ (err.a \in ErrorValues /\ err.b \in ErrorValues /\ err.a # err.b)
                => err.ta # err.tb
          /\ err.a \in ErrorValues => err.ta # "unknown error"
          /\ err.a \notin ErrorValues => err.ta = "unknown error"
          /\ err.a = 0 => err.ta = "success"
          /\ err.cat = "vsocky"
          /\ err.msg = err.ta
    /\ error_value("success") = 0
    /\ error_to_string(error_value("socket_creation_failed")) = "socket creation failed"
    /\ error_to_string(error_value("invalid_json")) = "invalid JSON"
    /\ error_code_message(make_error_code(error_value("bind_failed"))) = "bind failed"

\* read_failed (6) and write_failed (7) were converted, to two texts.
C32_Witness ==
    /\ err.pc = "texts"
    /\ err.a = error_value("read_failed")
    /\ err.b = error_value("write_failed")
    /\ err.ta = "read failed"
    /\ err.tb = "write failed"
    /\ err.msg = "read failed"

\* The member functions that use the handle and never release or replace it.
HandleUsers == {"read", "write", "set_non_blocking", "peer_cid", "peer_port"}

\* C33: read, write, set_non_blocking, peer_cid and peer_port leave fd_ of
\* every Connection as it was and close no descriptor.  After a read or a
\* write that the kernel answered with end of stream, ECONNRESET or EPIPE
\* (outcome connection closed), the Connection is still valid and holds the
\* same descriptor, which is open and was never passed to ::close.  The fd_
\* of an object that stays alive changes only in close(), a move construction
\* or a move assignment.
C33_HandleKept ==
    /\ [][last'.op \in HandleUsers =>
             /\ fd_' = fd_
             /\ live' = live
             /\ os'.open = os.open
             /\ os'.closeCalls = os.closeCalls]_vars
    /\ []((/\ last.op \in {"read", "write"}
           /\ last.ec = connection_closed
           /\ last.calls # <<>>) =>
             /\ is_valid(last.c)
             /\ fd(last.c) = last.fd
             /\ last.fd \in Handles
             /\ os.open[last.fd]
             /\ os.closeCalls[last.fd] = 0)
    /\ [][(\E c \in Conns : live[c] /\ live'[c] /\ fd_'[c] # fd_[c]) =>
             last'.op \in {"close", "move_construct", "move_assign"}]_vars

\* A read on a descriptor whose peer had closed returned connection closed at
\* end of stream, and the Connection still holds the descriptor.
C33_Witness ==
    /\ last.op = "read"
    /\ last.ec = connection_closed
    /\ last.ret = 0
    /\ last.calls = << <<"read", last.fd>> >>
    /\ last.fd \in Handles
    /\ ~os.open[Peer(last.fd)]
    /\ is_valid(last.c)
    /\ fd(last.c) = last.fd

\* C34: on every return from read or write the caller's output variable holds
\* the reported count, whatever it held before: 0 unless the outcome is
\* success, and never more than the size of the buffer passed in.
C34_CountOverwritten ==
    last.op \in {"read", "write"} =>
        /\ last.ec # success => last.n = 0
        /\ last.n <= last.req
        /\ last.op = "write" => io.bytes_written = last.n
        /\ last.op = "read" => io.bytes_read = last.n

\* The writer's variable held the count of an earlier successful write when a
\* write after the reader's close returned connection closed; it holds 0 now.
C34_Witness ==
    /\ last.op = "write"
    /\ last.ec = connection_closed
    /\ last.calls # <<>>
    /\ io.held > 0
    /\ io.bytes_written = 0
    /\ last.n = 0

C36_AbsentHandleFirst ==
    (last.op \in {"read", "write"} /\ last.req = 0) =>
        /\ last.calls = <<>>
        /\ last.n = 0
        /\ last.fd = NoFd => last.ec = connection_closed
        /\ last.ec = success => (last.fd # NoFd /\ is_valid(last.c))
        /\ last.ec \in {success, connection_closed}

\* A write of empty input on a handle-less Connection returned connection
\* closed.
C36_Witness ==
    /\ last.op = "write"
    /\ last.req = 0
    /\ last.data = <<>>
    /\ last.fd = NoFd
    /\ ~is_valid(last.c)
    /\ last.ec = connection_closed

\* The number of low-order bits of the last data symbol of t that padding
\* discards: 4 before "==", 2 before "=", none without padding.
DiscardedBits(t) == 2 * TrailingPads(t)

\* The value of the last data symbol of an accepted text with padding.
LastDataValue(t) == decode_table(t[Len(t) - TrailingPads(t)])

\* The texts that differ from t at most in the discarded bits of its last
\* data symbol.
SameButDiscarded(t) ==
    IF TrailingPads(t) = 0 THEN {t}
    ELSE {[t EXCEPT ![Len(t) - TrailingPads(t)] = encode_table[w + 1]] :
             w \in {v \in 0..63 : v \div (2 ^ DiscardedBits(t))
                                    = LastDataValue(t) \div (2 ^ DiscardedBits(t))}}

\* C37: base64_decode does not look at the bits of the last data symbol that
\* padding discards.  Every text that differs from an accepted text only in
\* those bits is accepted too and decodes to the same bytes, and encoding the
\* decoded bytes gives the text back exactly when those bits are zero.
C37_DiscardedBitsIgnored ==
    (b64.pc = "decoded" /\ b64.ec = success /\ b64.text # <<>>) =>
        /\ \A t \in SameButDiscarded(b64.text) :
              base64_decode(t) = [ec |-> success, bytes |-> b64.out]
        /\ (base64_encode(b64.out) = b64.text)
              <=> (TrailingPads(b64.text) = 0
                   \/ LastDataValue(b64.text) % (2 ^ DiscardedBits(b64.text)) = 0)

\* "QR==" was decoded to the byte 65, whose encoding is "QQ==".
C37_Witness ==
    /\ b64.pc = "decoded"
    /\ b64.text = << "Q", "R", "=", "=" >>
    /\ b64.ec = success
    /\ b64.out = << 65 >>
    /\ base64_encode(b64.out) = << "Q", "Q", "=", "=" >>

\* C38: the server main stays in its polling loop while should_shutdown() is
\* false: from the loop with the flag down the next position is again in the
\* loop.  It has left the loop only with the flag set, and then with exit
\* status 0.  Once the flag is set the main thread eventually leaves the loop
\* and exits with status 0.
C38_MainLoop ==
    /\ [][(sig.pc \in {"poll", "sleep"} /\ ~sig.flag) => sig'.pc \in {"poll", "sleep"}]_vars
    /\ [](sig.pc = "exited" => (sig.flag /\ sig.latched /\ sig.status = 0))
    /\ [](sig.pc # "exited" => sig.status = -1)
    /\ (sig.flag ~> (sig.pc = "exited" /\ sig.status = 0))

\* The server left its loop with status 0 after every signal of the run was
\* sent, with the flag set by one of the three handled signals.
C38_Witness ==
    /\ sig.pc = "exited"
    /\ sig.status = 0
    /\ sig.flag
    /\ sig.installed = ShutdownSignals
    /\ sig.sent = MaxSignals

====
